---------------------------- MODULE Spec2Model ----------------------------
(***************************************************************************)
(* Monday write proxy for Zoom Virtual Agent (rdyla/secureone-fingerprint). *)
(*                                                                         *)
(* The repository holds four revisions of the same Cloudflare Worker:      *)
(*   "W"   src/_worker.js                    (plain string columns)        *)
(*   "P0a" src/unnamed/part_000 lines 1-274  (CORS, division validation)   *)
(*   "P0b" src/unnamed/part_000 lines 276-556 (typed columns, raw phones)  *)
(*   "P1"  src/unnamed/part_001              (unwrap, phone normalization)  *)
(* The deployed revision is a parameter of the model (variable `variant`). *)
(*                                                                         *)
(* JavaScript strings that the code inspects are sequences of one-character *)
(* strings; JSON values are tagged records; JSON objects are sequences of   *)
(* [k, v] entries in insertion order.                                       *)
(***************************************************************************)
EXTENDS Integers, Sequences, FiniteSets, TLC

(***************************************************************************)
(* JavaScript values                                                       *)
(***************************************************************************)
Undefined == [t |-> "undef"]
JNull == [t |-> "null"]
JStr(s) == [t |-> "str", s |-> s]
JNum(n) == [t |-> "num", n |-> n]
JBool(b) == [t |-> "bool", b |-> b]
JArr(a) == [t |-> "arr", a |-> a]
JObj(m) == [t |-> "obj", m |-> m]
KV(k, v) == [k |-> k, v |-> v]

DigitChars == <<"0", "1", "2", "3", "4", "5", "6", "7", "8", "9">>
IsDigit(c) == \E n \in 1..10 : DigitChars[n] = c
DigitVal(c) == (CHOOSE n \in 1..10 : DigitChars[n] = c) - 1
IsSpace(c) == c \in {" ", "\t", "\n", "\r"}

RECURSIVE NumToStr(_)
\* String(n) for a non-negative integer n
NumToStr(n) ==
  IF n < 10 THEN <<DigitChars[n + 1]>>
  ELSE NumToStr(n \div 10) \o <<DigitChars[(n % 10) + 1]>>

RECURSIVE StrToNum(_)
StrToNum(s) ==
  IF s = <<>> THEN 0
  ELSE 10 * StrToNum(SubSeq(s, 1, Len(s) - 1)) + DigitVal(s[Len(s)])

\* n written with at least w digits: String(n).padStart(w, "0")
RECURSIVE padStart(_, _)
padStart(s, w) == IF Len(s) >= w THEN s ELSE padStart(<<"0">> \o s, w)

(***************************************************************************)
(* JSON.parse / req.json(): a recursive-descent parser for the JSON that   *)
(* occurs in the model: null, true, false, non-negative integers, strings, *)
(* arrays and objects, with optional whitespace.                           *)
(***************************************************************************)
\* a SyntaxError raised at index p of the text (p > Len: at the end of input)
ParseFail(p) == [ok |-> FALSE, val |-> Undefined, pos |-> p]
ParseOk(v, p) == [ok |-> TRUE, val |-> v, pos |-> p]

RECURSIVE SkipWs(_, _)
SkipWs(s, i) == IF i <= Len(s) /\ IsSpace(s[i]) THEN SkipWs(s, i + 1) ELSE i

StartsAt(s, i, lit) ==
  /\ i + Len(lit) - 1 <= Len(s)
  /\ SubSeq(s, i, i + Len(lit) - 1) = lit

RECURSIVE ParseString(_, _, _)
\* the characters of a string literal whose opening quote is just before i;
\* the escapes \" \\ and \/ are decoded, the other escapes do not occur
ParseString(s, i, acc) ==
  IF i > Len(s) THEN ParseFail(i)
  ELSE IF s[i] = "\"" THEN ParseOk(acc, i + 1)
  ELSE IF s[i] = "\\" THEN
    IF i + 1 <= Len(s) /\ s[i + 1] \in {"\"", "\\", "/"}
    THEN ParseString(s, i + 2, Append(acc, s[i + 1]))
    ELSE ParseFail(i + 1)
  ELSE ParseString(s, i + 1, Append(acc, s[i]))

RECURSIVE DigitsEnd(_, _)
\* index just after the run of digits starting at i
DigitsEnd(s, i) ==
  IF i <= Len(s) /\ IsDigit(s[i]) THEN DigitsEnd(s, i + 1) ELSE i

RECURSIVE ParseValue(_, _), ParseElements(_, _, _), ParseMembers(_, _, _)
ParseValue(s, i0) ==
  LET i == SkipWs(s, i0) IN
  IF i > Len(s) THEN ParseFail(i)
  ELSE IF StartsAt(s, i, <<"n", "u", "l", "l">>) THEN ParseOk(JNull, i + 4)
  ELSE IF StartsAt(s, i, <<"t", "r", "u", "e">>) THEN ParseOk(JBool(TRUE), i + 4)
  ELSE IF StartsAt(s, i, <<"f", "a", "l", "s", "e">>) THEN ParseOk(JBool(FALSE), i + 5)
  ELSE IF IsDigit(s[i]) THEN
    LET e == DigitsEnd(s, i) IN
    IF s[i] = "0" /\ e > i + 1 THEN ParseFail(i + 1)
    ELSE ParseOk(JNum(StrToNum(SubSeq(s, i, e - 1))), e)
  ELSE IF s[i] = "\"" THEN
    LET q == ParseString(s, i + 1, <<>>) IN
    IF ~q.ok THEN q ELSE ParseOk(JStr(q.val), q.pos)
  ELSE IF s[i] = "[" THEN
    LET j == SkipWs(s, i + 1) IN
    IF j <= Len(s) /\ s[j] = "]" THEN ParseOk(JArr(<<>>), j + 1)
    ELSE ParseElements(s, j, <<>>)
  ELSE IF s[i] = "{" THEN
    LET j == SkipWs(s, i + 1) IN
    IF j <= Len(s) /\ s[j] = "}" THEN ParseOk(JObj(<<>>), j + 1)
    ELSE ParseMembers(s, j, <<>>)
  ELSE ParseFail(i)

\* elements of an array, the opening bracket consumed, acc the elements so far
ParseElements(s, i, acc) ==
  LET r == ParseValue(s, i) IN
  IF ~r.ok THEN r
  ELSE LET j == SkipWs(s, r.pos) IN
       IF j > Len(s) THEN ParseFail(j)
       ELSE IF s[j] = "]" THEN ParseOk(JArr(Append(acc, r.val)), j + 1)
       ELSE IF s[j] = "," THEN ParseElements(s, j + 1, Append(acc, r.val))
       ELSE ParseFail(j)

\* members of an object, the opening brace consumed, acc the entries so far
ParseMembers(s, i0, acc) ==
  LET i == SkipWs(s, i0) IN
  IF i > Len(s) \/ s[i] # "\"" THEN ParseFail(i)
  ELSE LET q == ParseString(s, i + 1, <<>>) IN
       IF ~q.ok THEN q
       ELSE LET c == SkipWs(s, q.pos) IN
            IF c > Len(s) \/ s[c] # ":" THEN ParseFail(c)
            ELSE LET r == ParseValue(s, c + 1) IN
                 IF ~r.ok THEN r
                 ELSE LET j == SkipWs(s, r.pos)
                          e == KV(q.val, r.val)
                      IN IF j > Len(s) THEN ParseFail(j)
                         ELSE IF s[j] = "}" THEN ParseOk(JObj(Append(acc, e)), j + 1)
                         ELSE IF s[j] = "," THEN ParseMembers(s, j + 1, Append(acc, e))
                         ELSE ParseFail(j)

\* JSON.parse(text): [ok, val, pos]; ok = FALSE stands for the SyntaxError
\* thrown, at index pos
JSONparse(s) ==
  LET r == ParseValue(s, 1) IN
  IF ~r.ok THEN r
  ELSE IF SkipWs(s, r.pos) = Len(s) + 1 THEN r
  ELSE ParseFail(SkipWs(s, r.pos))

\* the message of the SyntaxError JSON.parse throws on s
SyntaxErrorMessage(s) ==
  IF JSONparse(s).pos > Len(s) THEN "Unexpected end of JSON input"
  ELSE "Unexpected token in JSON"

(***************************************************************************)
(* JSON.stringify                                                          *)
(***************************************************************************)
RECURSIVE Escape(_)
Escape(s) ==
  IF s = <<>> THEN <<>>
  ELSE (IF Head(s) \in {"\"", "\\"} THEN <<"\\", Head(s)>> ELSE <<Head(s)>>)
       \o Escape(Tail(s))

Quote(s) == <<"\"">> \o Escape(s) \o <<"\"">>

RECURSIVE JSONstringify(_), StringifyEntries(_, _), StringifyItems(_, _)
JSONstringify(v) ==
  CASE v.t = "null" -> <<"n", "u", "l", "l">>
    [] v.t = "bool" -> IF v.b THEN <<"t", "r", "u", "e">> ELSE <<"f", "a", "l", "s", "e">>
    [] v.t = "num" -> NumToStr(v.n)
    [] v.t = "str" -> Quote(v.s)
    [] v.t = "arr" -> <<"[">> \o StringifyItems(v.a, 1) \o <<"]">>
    [] v.t = "obj" -> <<"{">> \o StringifyEntries(SelectSeq(v.m, LAMBDA e : e.v.t # "undef"), 1) \o <<"}">>

StringifyItems(a, i) ==
  IF i > Len(a) THEN <<>>
  ELSE (IF i > 1 THEN <<",">> ELSE <<>>)
       \o (IF a[i].t = "undef" THEN <<"n", "u", "l", "l">> ELSE JSONstringify(a[i]))
       \o StringifyItems(a, i + 1)

StringifyEntries(m, i) ==
  IF i > Len(m) THEN <<>>
  ELSE (IF i > 1 THEN <<",">> ELSE <<>>)
       \o Quote(m[i].k) \o <<":">> \o JSONstringify(m[i].v)
       \o StringifyEntries(m, i + 1)

(***************************************************************************)
(* String constants of the handlers                                        *)
(***************************************************************************)
\* U+2013, the dash of the item title, as one character
EnDash == "EN DASH"
K_name == <<"n", "a", "m", "e">>
K_dateTime == <<"d", "a", "t", "e", "T", "i", "m", "e">>
K_phone == <<"p", "h", "o", "n", "e">>
K_email == <<"e", "m", "a", "i", "l">>
K_issue == <<"i", "s", "s", "u", "e">>
K_division == <<"d", "i", "v", "i", "s", "i", "o", "n">>
K_callerId == <<"c", "a", "l", "l", "e", "r", "I", "d">>
K_zoomGuid == <<"z", "o", "o", "m", "G", "u", "i", "d">>
K_emailStatus == <<"e", "m", "a", "i", "l", "S", "t", "a", "t", "u", "s">>
K_json == <<"j", "s", "o", "n">>
K_data == <<"d", "a", "t", "a">>
K_body == <<"b", "o", "d", "y">>
K_payload == <<"p", "a", "y", "l", "o", "a", "d">>
K_text == <<"t", "e", "x", "t">>
K_label == <<"l", "a", "b", "e", "l">>
K_countryShortName == <<"c", "o", "u", "n", "t", "r", "y", "S", "h", "o", "r", "t", "N", "a", "m", "e">>
K_error == <<"e", "r", "r", "o", "r">>
K_errors == <<"e", "r", "r", "o", "r", "s">>
K_create_item == <<"c", "r", "e", "a", "t", "e", "_", "i", "t", "e", "m">>
K_id == <<"i", "d">>
K_message == <<"m", "e", "s", "s", "a", "g", "e">>
C_date4 == <<"d", "a", "t", "e", "4">>
C_phone_mktdphra == <<"p", "h", "o", "n", "e", "_", "m", "k", "t", "d", "p", "h", "r", "a">>
C_email_mktdyt3z == <<"e", "m", "a", "i", "l", "_", "m", "k", "t", "d", "y", "t", "3", "z">>
C_text_mktdb8pg == <<"t", "e", "x", "t", "_", "m", "k", "t", "d", "b", "8", "p", "g">>
C_color_mktd81zp == <<"c", "o", "l", "o", "r", "_", "m", "k", "t", "d", "8", "1", "z", "p">>
C_color_mktsk31h == <<"c", "o", "l", "o", "r", "_", "m", "k", "t", "s", "k", "3", "1", "h">>
C_text_mkv07gad == <<"t", "e", "x", "t", "_", "m", "k", "v", "0", "7", "g", "a", "d">>
C_color_mkv0cpxc == <<"c", "o", "l", "o", "r", "_", "m", "k", "v", "0", "c", "p", "x", "c">>
C_phone_mkv0p9q3 == <<"p", "h", "o", "n", "e", "_", "m", "k", "v", "0", "p", "9", "q", "3">>
C_text_mkv7j2fq == <<"t", "e", "x", "t", "_", "m", "k", "v", "7", "j", "2", "f", "q">>
BOARD_ID == <<"9", "7", "2", "9", "4", "1", "1", "5", "2", "4">>
department == <<"F", "i", "n", "g", "e", "r", "p", "r", "i", "n", "t">>
departmentEmail == <<"l", "i", "v", "e", "s", "c", "a", "n", "@", "s", "e", "c", "u", "r", "e", "o", "n", "e", ".", "c", "o", "m">>
UnknownCaller == <<"U", "n", "k", "n", "o", "w", "n", " ", "c", "a", "l", "l", "e", "r">>
NotSent == <<"N", "o", "t", " ", "S", "e", "n", "t">>
Other == <<"O", "t", "h", "e", "r">>
US == <<"U", "S">>
DefaultItemName == <<"Z", "o", "o", "m", " ", "V", "i", "r", "t", "u", "a", "l", " ", "A", "g", "e", "n", "t", " ", "C", "a", "l", "l">>
ObjectObject == <<"[", "o", "b", "j", "e", "c", "t", " ", "O", "b", "j", "e", "c", "t", "]">>

(***************************************************************************)
(* JavaScript operators the handlers use                                   *)
(***************************************************************************)
\* v == null
Nullish(v) == v.t \in {"undef", "null"}

\* ToBoolean(v)
Truthy(v) ==
  CASE v.t \in {"undef", "null"} -> FALSE
    [] v.t = "bool" -> v.b
    [] v.t = "num" -> v.n # 0
    [] v.t = "str" -> v.s # <<>>
    [] v.t \in {"arr", "obj"} -> TRUE

\* typeof v === "object"
TypeofObject(v) == v.t \in {"null", "arr", "obj"}

RECURSIVE Lookup(_, _, _)
\* the value of the last entry of m with key k, at or before index i
Lookup(m, k, i) ==
  IF i = 0 THEN Undefined
  ELSE IF m[i].k = k THEN m[i].v
  ELSE Lookup(m, k, i - 1)

\* v.k for a non-nullish v (reading a property of null or undefined throws)
Get(v, k) == IF v.t = "obj" THEN Lookup(v.m, k, Len(v.m)) ELSE Undefined

HasKey(v, k) == v.t = "obj" /\ \E i \in 1..Len(v.m) : v.m[i].k = k

RECURSIVE Join(_, _)
\* String(v)
StringOf(v) ==
  CASE v.t = "str" -> v.s
    [] v.t = "num" -> NumToStr(v.n)
    [] v.t = "bool" -> IF v.b THEN <<"t", "r", "u", "e">> ELSE <<"f", "a", "l", "s", "e">>
    [] v.t = "obj" -> ObjectObject
    [] v.t = "arr" -> Join(v.a, 1)
    [] v.t = "null" -> <<"n", "u", "l", "l">>
    [] v.t = "undef" -> <<"u", "n", "d", "e", "f", "i", "n", "e", "d">>

\* Array.prototype.join(","): null and undefined elements give ""
Join(a, i) ==
  IF i > Len(a) THEN <<>>
  ELSE (IF i > 1 THEN <<",">> ELSE <<>>)
       \o (IF Nullish(a[i]) THEN <<>> ELSE StringOf(a[i]))
       \o Join(a, i + 1)

RECURSIVE trimStart(_), trimEnd(_)
trimStart(s) == IF s # <<>> /\ IsSpace(Head(s)) THEN trimStart(Tail(s)) ELSE s
trimEnd(s) ==
  IF s # <<>> /\ IsSpace(s[Len(s)]) THEN trimEnd(SubSeq(s, 1, Len(s) - 1)) ELSE s
trim(s) == trimEnd(trimStart(s))

\* const S = (v) => (v == null ? "" : String(v).trim());
S(v) == IF Nullish(v) THEN <<>> ELSE trim(StringOf(v))

(***************************************************************************)
(* Dates.  A calendar date is [y, m, d]; the Worker's local time zone is   *)
(* UTC.                                                                    *)
(***************************************************************************)
IsLeap(y) == (y % 4 = 0 /\ y % 100 # 0) \/ y % 400 = 0
DaysIn(y, m) ==
  IF m = 2 THEN (IF IsLeap(y) THEN 29 ELSE 28)
  ELSE IF m \in {4, 6, 9, 11} THEN 30 ELSE 31
NextDay(c) ==
  IF c.d < DaysIn(c.y, c.m) THEN [c EXCEPT !.d = c.d + 1]
  ELSE IF c.m < 12 THEN [y |-> c.y, m |-> c.m + 1, d |-> 1]
  ELSE [y |-> c.y + 1, m |-> 1, d |-> 1]
PrevDay(c) ==
  IF c.d > 1 THEN [c EXCEPT !.d = c.d - 1]
  ELSE IF c.m > 1 THEN [y |-> c.y, m |-> c.m - 1, d |-> DaysIn(c.y, c.m - 1)]
  ELSE [y |-> c.y - 1, m |-> 12, d |-> 31]

\* `${yyyy}-${mm}-${dd}` with mm and dd padded to two digits; also
\* toISOString().slice(0, 10), where the year has four digits
FormatYMD(c) ==
  padStart(NumToStr(c.y), 4) \o <<"-">> \o padStart(NumToStr(c.m), 2)
    \o <<"-">> \o padStart(NumToStr(c.d), 2)

AllDigits(s, from, to) == \A i \in from..to : IsDigit(s[i])

\* /^\d{4}-\d{2}-\d{2}$/.test(s)
MatchesYMD(s) ==
  /\ Len(s) = 10
  /\ AllDigits(s, 1, 4) /\ s[5] = "-" /\ AllDigits(s, 6, 7)
  /\ s[8] = "-" /\ AllDigits(s, 9, 10)

\* /^\d{4}-\d{2}-\d{2} \d{2}:\d{2}:\d{2}$/.test(s)
MatchesYMDHMS(s) ==
  /\ Len(s) = 19
  /\ MatchesYMD(SubSeq(s, 1, 10)) /\ s[11] = " "
  /\ AllDigits(s, 12, 13) /\ s[14] = ":" /\ AllDigits(s, 15, 16)
  /\ s[17] = ":" /\ AllDigits(s, 18, 19)

InvalidDate == [valid |-> FALSE, date |-> [y |-> 0, m |-> 0, d |-> 0]]

\* hh:mm:ss at s[i..i+7], as minutes of the day, -1 when malformed
TimeAt(s, i) ==
  IF /\ Len(s) >= i + 7
     /\ AllDigits(s, i, i + 1) /\ s[i + 2] = ":" /\ AllDigits(s, i + 3, i + 4)
     /\ s[i + 5] = ":" /\ AllDigits(s, i + 6, i + 7)
     /\ StrToNum(SubSeq(s, i, i + 1)) <= 23
     /\ StrToNum(SubSeq(s, i + 3, i + 4)) <= 59
     /\ StrToNum(SubSeq(s, i + 6, i + 7)) <= 59
  THEN 60 * StrToNum(SubSeq(s, i, i + 1)) + StrToNum(SubSeq(s, i + 3, i + 4))
  ELSE -1

\* Z or +hh:mm or -hh:mm at s[i..], as minutes east of UTC; 0 when s ends at
\* i - 1 (local time, which is UTC); 9999 when malformed
ZoneAt(s, i) ==
  IF Len(s) = i - 1 THEN 0
  ELSE IF Len(s) = i /\ s[i] = "Z" THEN 0
  ELSE IF /\ Len(s) = i + 5 /\ s[i] \in {"+", "-"}
          /\ AllDigits(s, i + 1, i + 2) /\ s[i + 3] = ":" /\ AllDigits(s, i + 4, i + 5)
          /\ StrToNum(SubSeq(s, i + 1, i + 2)) <= 23
          /\ StrToNum(SubSeq(s, i + 4, i + 5)) <= 59
  THEN (IF s[i] = "+" THEN 1 ELSE -1)
       * (60 * StrToNum(SubSeq(s, i + 1, i + 2)) + StrToNum(SubSeq(s, i + 4, i + 5)))
  ELSE 9999

\* new Date(s), reduced to what the handlers read of it: whether getTime() is
\* NaN and the UTC calendar date.  Parsed forms: YYYY-MM-DD (UTC midnight),
\* YYYY-MM-DD HH:MM:SS (local time) and YYYY-MM-DDTHH:MM:SS with an optional
\* Z or +-HH:MM; every other string is an invalid date.
NewDate(s) ==
  IF Len(s) < 10 \/ ~MatchesYMD(SubSeq(s, 1, 10)) THEN InvalidDate
  ELSE LET c == [y |-> StrToNum(SubSeq(s, 1, 4)), m |-> StrToNum(SubSeq(s, 6, 7)),
                 d |-> StrToNum(SubSeq(s, 9, 10))]
       IN IF c.m \notin 1..12 \/ c.d < 1 \/ c.d > DaysIn(c.y, c.m) THEN InvalidDate
          ELSE IF Len(s) = 10 THEN [valid |-> TRUE, date |-> c]
          ELSE IF s[11] \notin {"T", " "} THEN InvalidDate
          ELSE LET t == TimeAt(s, 12)
                   z == IF s[11] = " " /\ Len(s) > 19 THEN 9999 ELSE ZoneAt(s, 20)
               IN IF t < 0 \/ z = 9999 THEN InvalidDate
                  ELSE IF t - z < 0 THEN [valid |-> TRUE, date |-> PrevDay(c)]
                  ELSE IF t - z >= 1440 THEN [valid |-> TRUE, date |-> NextDay(c)]
                  ELSE [valid |-> TRUE, date |-> c]

\* normalizeDateString of part_001 and of the second handler of part_000
normalizeDateString(input, fallback) ==
  IF input = <<>> THEN fallback
  ELSE IF MatchesYMD(input) THEN input
  ELSE IF MatchesYMDHMS(input) THEN input
  ELSE LET d == NewDate(input) IN
       IF ~d.valid THEN fallback ELSE FormatYMD(d.date)

\* normalizeDateString of the first handler of part_000 (no fast path)
normalizeDateString_P0a(input, fallback) ==
  IF input = <<>> THEN fallback
  ELSE LET d == NewDate(input) IN
       IF ~d.valid THEN fallback ELSE FormatYMD(d.date)

(***************************************************************************)
(* Phones                                                                  *)
(***************************************************************************)
\* s.replace(/[^\d]/g, "")
StripNonDigits(s) == SelectSeq(s, IsDigit)

\* normalizePhone(raw): null, or the phone column value
normalizePhone(raw) ==
  LET s == S(raw)
      digits0 == StripNonDigits(s)
      digits == IF Len(digits0) = 11 /\ Head(digits0) = "1" THEN Tail(digits0)
                ELSE digits0
  IN IF s = <<>> THEN JNull
     ELSE IF digits0 = <<>> THEN JNull
     ELSE IF Len(digits) < 7 THEN JNull
     ELSE JObj(<<KV(K_phone, JStr(digits)), KV(K_countryShortName, JStr(US))>>)

(***************************************************************************)
(* The request normalizer of each revision                                 *)
(***************************************************************************)
Variants == {"W", "P0a", "P0b", "P1"}

s_Texas == <<"T", "e", "x", "a", "s">>
s_Arizona == <<"A", "r", "i", "z", "o", "n", "a">>
s_Illinois == <<"I", "l", "l", "i", "n", "o", "i", "s">>
s_Alabama == <<"A", "l", "a", "b", "a", "m", "a">>
s_Ohio == <<"O", "h", "i", "o">>
s_Tennessee == <<"T", "e", "n", "n", "e", "s", "s", "e", "e">>
s_Indiana == <<"I", "n", "d", "i", "a", "n", "a">>

validDivisions ==
  {s_Arizona, s_Illinois, s_Alabama, s_Texas, s_Ohio, s_Tennessee, s_Indiana}

\* an unwrapping that tries body.data before body.json
unwrap_dataFirst(body) ==
  IF Truthy(body) /\ TypeofObject(body) THEN
    IF Truthy(Get(body, K_data)) /\ TypeofObject(Get(body, K_data))
    THEN Get(body, K_data)
    ELSE IF Truthy(Get(body, K_json)) /\ TypeofObject(Get(body, K_json))
    THEN Get(body, K_json)
    ELSE IF Get(body, K_body).t = "str"
    THEN LET r == JSONparse(Get(body, K_body).s) IN IF r.ok THEN r.val ELSE body
    ELSE IF Truthy(Get(body, K_body)) /\ TypeofObject(Get(body, K_body))
    THEN Get(body, K_body)
    ELSE body
  ELSE body

\* "Unwrap ZVA-style nesting" (first handler of part_000 and part_001); on a
\* JSON.parse failure of body.body the catch leaves body as it was
unwrap(body) ==
  IF Truthy(body) /\ TypeofObject(body) THEN
    IF Truthy(Get(body, K_json)) /\ TypeofObject(Get(body, K_json))
    THEN Get(body, K_json)
    ELSE IF Truthy(Get(body, K_data)) /\ TypeofObject(Get(body, K_data))
    THEN Get(body, K_data)
    ELSE IF Get(body, K_body).t = "str"
    THEN LET r == JSONparse(Get(body, K_body).s) IN IF r.ok THEN r.val ELSE body
    ELSE IF Truthy(Get(body, K_body)) /\ TypeofObject(Get(body, K_body))
    THEN Get(body, K_body)
    ELSE body
  ELSE body

\* the value of `body` when the fields are read
Unwrapped(v, body) == IF v \in {"P0a", "P1"} THEN unwrap(body) ELSE body

\* an || whose right-hand default is never taken
Or_noDefault(a, b) == a

\* a || b
Or(a, b) == IF Truthy(a) THEN a ELSE b

\* ...(cond && {k: v}) inside an object literal
SpreadIf(cond, k, v) == IF Truthy(cond) THEN <<KV(k, v)>> ELSE <<>>

\* now.toISOString().slice(0, 10)
defaultDate(now) == FormatYMD(now)

PhoneRaw(p) == JObj(<<KV(K_phone, JStr(p)), KV(K_countryShortName, JStr(<<>>))>>)
EmailValue(e) == JObj(<<KV(K_email, JStr(e)), KV(K_text, JStr(e))>>)
Label(l) == JObj(<<KV(K_label, JStr(l))>>)

\* columnValues of src/_worker.js
columnValues_W(body, now) ==
  LET dateTime == S(Get(body, K_dateTime))
      emailStatus == S(Or(Get(body, K_emailStatus), JStr(NotSent)))
      dateValue == Or(JStr(dateTime), JStr(defaultDate(now)))
  IN << KV(K_name, Or(JStr(S(Get(body, K_name))), JStr(UnknownCaller))),
        KV(C_date4, dateValue),
        KV(C_phone_mktdphra, JStr(S(Get(body, K_phone)))),
        KV(C_email_mktdyt3z, JStr(S(Get(body, K_email)))),
        KV(C_text_mktdb8pg, JStr(S(Get(body, K_issue)))),
        KV(C_color_mktd81zp, JStr(S(Get(body, K_division)))),
        KV(C_color_mktsk31h, JStr(department)),
        KV(C_text_mkv07gad, JStr(departmentEmail)),
        KV(C_color_mkv0cpxc, JStr(emailStatus)),
        KV(C_phone_mkv0p9q3, JStr(S(Get(body, K_callerId)))),
        KV(C_text_mkv7j2fq, JStr(S(Get(body, K_zoomGuid)))) >>

\* columnValues of the first handler of part_000
columnValues_P0a(body, now) ==
  LET name == S(Get(body, K_name))
      email == S(Get(body, K_email))
      issue == S(Get(body, K_issue))
      division == S(Get(body, K_division))
      divisionLabel == IF division \in validDivisions THEN division ELSE Other
      zoomGuid == S(Get(body, K_zoomGuid))
      dateValue == normalizeDateString_P0a(S(Get(body, K_dateTime)), defaultDate(now))
      normalizedMainPhone == normalizePhone(JStr(S(Get(body, K_phone))))
      normalizedCallerId == normalizePhone(JStr(S(Get(body, K_callerId))))
  IN <<KV(K_name, Or(JStr(name), JStr(UnknownCaller))), KV(C_date4, JStr(dateValue))>>
     \o SpreadIf(normalizedMainPhone, C_phone_mktdphra, normalizedMainPhone)
     \o SpreadIf(JStr(email), C_email_mktdyt3z, EmailValue(email))
     \o SpreadIf(JStr(issue), C_text_mktdb8pg, JStr(issue))
     \o SpreadIf(JStr(division), C_color_mktd81zp, Label(divisionLabel))
     \o <<KV(C_color_mktsk31h, Label(department)), KV(C_text_mkv07gad, JStr(departmentEmail))>>
     \o SpreadIf(normalizedCallerId, C_phone_mkv0p9q3, normalizedCallerId)
     \o SpreadIf(JStr(zoomGuid), C_text_mkv7j2fq, JStr(zoomGuid))

\* columnValues of the second handler of part_000
columnValues_P0b(body, now) ==
  LET name == S(Get(body, K_name))
      phone == S(Get(body, K_phone))
      email == S(Get(body, K_email))
      issue == S(Get(body, K_issue))
      division == S(Get(body, K_division))
      callerId == S(Get(body, K_callerId))
      zoomGuid == S(Get(body, K_zoomGuid))
      dateValue == normalizeDateString(S(Get(body, K_dateTime)), defaultDate(now))
  IN <<KV(K_name, Or(JStr(name), JStr(UnknownCaller))), KV(C_date4, JStr(dateValue))>>
     \o SpreadIf(JStr(phone), C_phone_mktdphra, PhoneRaw(phone))
     \o SpreadIf(JStr(email), C_email_mktdyt3z, EmailValue(email))
     \o SpreadIf(JStr(issue), C_text_mktdb8pg, JStr(issue))
     \o SpreadIf(JStr(division), C_color_mktd81zp, Label(division))
     \o <<KV(C_color_mktsk31h, Label(department)), KV(C_text_mkv07gad, JStr(departmentEmail))>>
     \o SpreadIf(JStr(callerId), C_phone_mkv0p9q3, PhoneRaw(callerId))
     \o SpreadIf(JStr(zoomGuid), C_text_mkv7j2fq, JStr(zoomGuid))

\* columnValues of part_001
columnValues_P1(body, now) ==
  LET name == S(Get(body, K_name))
      email == S(Get(body, K_email))
      issue == S(Get(body, K_issue))
      division == S(Get(body, K_division))
      zoomGuid == S(Get(body, K_zoomGuid))
      dateValue == normalizeDateString(S(Get(body, K_dateTime)), defaultDate(now))
      normalizedMainPhone == normalizePhone(JStr(S(Get(body, K_phone))))
      normalizedCallerId == normalizePhone(JStr(S(Get(body, K_callerId))))
  IN <<KV(K_name, Or(JStr(name), JStr(UnknownCaller))), KV(C_date4, JStr(dateValue))>>
     \o SpreadIf(normalizedMainPhone, C_phone_mktdphra, normalizedMainPhone)
     \o SpreadIf(JStr(email), C_email_mktdyt3z, EmailValue(email))
     \o SpreadIf(JStr(issue), C_text_mktdb8pg, JStr(issue))
     \o SpreadIf(JStr(division), C_color_mktd81zp, Label(division))
     \o <<KV(C_color_mktsk31h, Label(department)), KV(C_text_mkv07gad, JStr(departmentEmail))>>
     \o SpreadIf(normalizedCallerId, C_phone_mkv0p9q3, normalizedCallerId)
     \o SpreadIf(JStr(zoomGuid), C_text_mkv7j2fq, JStr(zoomGuid))

columnValues(v, body, now) ==
  CASE v = "W" -> columnValues_W(body, now)
    [] v = "P0a" -> columnValues_P0a(body, now)
    [] v = "P0b" -> columnValues_P0b(body, now)
    [] v = "P1" -> columnValues_P1(body, now)

\* the loop over Object.entries(columnValues) that fills cleanedColumnValues
cleanedColumnValues(cv) ==
  SelectSeq(cv, LAMBDA e : e.v # Undefined /\ e.v # JNull /\ e.v # JStr(<<>>))

\* the object that is serialized into variables.columnValues
ColumnValuesSent(v, body, now) ==
  IF v = "W" THEN JObj(columnValues(v, body, now))
  ELSE JObj(cleanedColumnValues(columnValues(v, body, now)))

\* itemName of src/_worker.js, part_001 and the second handler of part_000
itemName(body) ==
  LET name == S(Get(body, K_name))
      issue == S(Get(body, K_issue))
  IN IF name # <<>> /\ issue # <<>> THEN name \o <<" ", EnDash, " ">> \o issue
     ELSE IF name # <<>> THEN name ELSE DefaultItemName

\* itemName of the first handler of part_000
itemName_P0a(body) ==
  LET name == S(Get(body, K_name)) IN IF name # <<>> THEN name ELSE DefaultItemName

\* const variables = { boardId, itemName, columnValues: JSON.stringify(...) }
variables(v, body, now) ==
  [boardId |-> BOARD_ID,
   itemName |-> IF v = "P0a" THEN itemName_P0a(body) ELSE itemName(body),
   columnValues |-> JSONstringify(ColumnValuesSent(v, body, now))]

(***************************************************************************)
(* Inputs: the requests, the clock and the upstream's answers              *)
(***************************************************************************)
s_Jane == <<"J", "a", "n", "e">>
s_A == <<"A">>
s_Blank == <<" ", " ">>
s_LostCard == <<"L", "o", "s", "t", " ", "c", "a", "r", "d">>
s_Foo == <<"F", "o", "o">>
s_texas == <<"t", "e", "x", "a", "s">>
s_OhioPadded == <<" ", "O", "h", "i", "o", " ">>
s_Phone11 == <<"1", " ", "(", "7", "1", "4", ")", " ", "5", "5", "5", "-", "1", "2", "1", "2">>
s_Phone11b == <<"1", "7", "1", "4", "5", "5", "5", "1", "2", "1", "2">>
s_Phone7 == <<"5", "5", "5", "1", "2", "1", "2">>
s_Phone5 == <<"1", "2", "3", "4", "5">>
s_Phone11x == <<"2", "1", "2", "3", "4", "5", "6", "7", "8", "9", "0">>
s_PhoneNone == <<"n", "/", "a">>
s_Date == <<"2", "0", "2", "5", "-", "1", "1", "-", "2", "1">>
s_DateTime == <<"2", "0", "2", "5", "-", "1", "1", "-", "2", "1", " ", "1", "5", ":", "3", "0", ":", "0", "0">>
s_IsoWest == <<"2", "0", "2", "5", "-", "1", "1", "-", "2", "1", "T", "1", "5", ":", "3", "0", ":", "0", "0", "-", "0", "8", ":", "0", "0">>
s_IsoRoll == <<"2", "0", "2", "5", "-", "1", "2", "-", "3", "1", "T", "2", "0", ":", "0", "0", ":", "0", "0", "-", "0", "8", ":", "0", "0">>
s_Soon == <<"s", "o", "o", "n">>
s_BadYMD == <<"9", "9", "9", "9", "-", "9", "9", "-", "9", "9">>
s_Email == <<"a", "@", "b", ".", "c">>
s_Guid == <<"g", "-", "1">>
s_Sent == <<"S", "e", "n", "t">>
s_1 == <<"1">>
s_BadBoard == <<"b", "a", "d", " ", "b", "o", "a", "r", "d">>
s_Oops == <<"o", "o", "p", "s">>
s_Html == <<"<", "h", "t", "m", "l", ">">>
s_Top == <<"T", "o", "p">>
s_Cut == <<"{", "\"", "n", "a", "m", "e", "\"", ":">>

Absent == Undefined
\* the entry k: v of an object literal, nothing when the field is absent
Opt(k, v) == IF v = Absent THEN <<>> ELSE <<KV(k, v)>>

NameValues == {Absent, JStr(s_Jane), JStr(s_Blank)}
IssueValues == {Absent, JStr(s_LostCard)}
DivisionValues ==
  {Absent, JStr(s_Texas), JStr(s_Foo), JStr(s_texas), JStr(s_OhioPadded), JStr(<<>>)}
PhoneValues ==
  {Absent, JStr(s_Phone11), JStr(s_Phone7), JStr(s_Phone5), JStr(s_Phone11x),
   JStr(s_PhoneNone), JNum(5551212)}
CallerIdValues == {Absent, JStr(s_Phone11b), JStr(s_Phone5)}
DateTimeValues ==
  {Absent, JStr(s_Date), JStr(s_DateTime), JStr(s_IsoWest), JStr(s_IsoRoll),
   JStr(s_Soon), JStr(s_BadYMD)}

\* the intake records: each group varies the fields one normalization reads
Records ==
  {JObj(Opt(K_name, n) \o Opt(K_issue, i) \o Opt(K_division, d)) :
     n \in NameValues, i \in IssueValues, d \in DivisionValues}
  \cup {JObj(Opt(K_phone, p) \o Opt(K_callerId, c)) :
     p \in PhoneValues, c \in CallerIdValues}
  \cup {JObj(Opt(K_name, JStr(s_A)) \o Opt(K_dateTime, d)) : d \in DateTimeValues}
  \cup {JObj(Opt(K_email, e) \o Opt(K_zoomGuid, z) \o Opt(K_emailStatus, s)) :
     e \in {Absent, JStr(s_Email)}, z \in {Absent, JStr(s_Guid)},
     s \in {Absent, JStr(s_Sent)}}
  \cup {JObj(<<KV(K_name, JStr(s_A)), KV(K_phone, JStr(s_Phone11b)),
               KV(K_division, JStr(s_Texas))>>)}

Inner == JObj(<<KV(K_name, JStr(s_Jane)), KV(K_division, JStr(s_Foo))>>)
Inner2 == JObj(<<KV(K_name, JStr(s_A)), KV(K_phone, JStr(s_Phone5))>>)

\* vendor envelopes around an intake record
Envelopes ==
  { JObj(<<KV(K_json, Inner)>>),
    JObj(<<KV(K_data, Inner)>>),
    JObj(<<KV(K_payload, Inner)>>),
    JObj(<<KV(K_body, Inner)>>),
    JObj(<<KV(K_body, JStr(JSONstringify(Inner)))>>),
    JObj(<<KV(K_body, JStr(s_Oops)), KV(K_name, JStr(s_Top))>>),
    JObj(<<KV(K_body, JStr(<<"n", "u", "l", "l">>)), KV(K_name, JStr(s_Top))>>),
    JObj(<<KV(K_body, JStr(<<"5">>)), KV(K_name, JStr(s_Top))>>),
    JObj(<<KV(K_data, Inner), KV(K_json, Inner2)>>),
    JObj(<<KV(K_body, JStr(JSONstringify(Inner))), KV(K_data, Inner2)>>),
    JObj(<<KV(K_body, Inner), KV(K_name, JStr(s_Top))>>),
    JObj(<<KV(K_json, JStr(s_Oops)), KV(K_data, JNull), KV(K_name, JStr(s_Top))>>),
    JObj(<<KV(K_json, JObj(<<KV(K_data, Inner)>>))>>),
    JArr(<<Inner>>) }

NonObjects == {JNull, JNum(5), JStr(s_Oops), JBool(TRUE), JArr(<<>>)}

\* request bodies that are not JSON
InvalidTexts == {<<>>, s_Cut, s_Oops}

WriteBodies ==
  {JSONstringify(v) : v \in Records \cup Envelopes \cup NonObjects} \cup InvalidTexts

Request(m, p, b) == [method |-> m, path |-> p, body |-> b]

Requests ==
  {Request("POST", "/monday/write", b) : b \in WriteBodies}
  \cup { Request("OPTIONS", "/monday/write", <<>>),
         Request("GET", "/health", <<>>),
         Request("GET", "/monday/write", <<>>),
         Request("POST", "/health", JSONstringify(Inner)) }

\* values of env.MONDAY_API_KEY: unset, empty, set
ApiKeys == {Undefined, JStr(<<>>), JStr(<<"k", "e", "y">>)}

\* readings of new Date()
Clock == {[y |-> 2025, m |-> 11, d |-> 21], [y |-> 2026, m |-> 1, d |-> 1]}

\* the upstream's HTTP status; 0 stands for a response without one
UpstreamStatuses == {200, 401, 500, 0}

Created == JObj(<<KV(K_id, JStr(s_1)), KV(K_name, JStr(s_A))>>)

UpstreamTexts ==
  { JSONstringify(v) : v \in
      { JObj(<<KV(K_data, JObj(<<KV(K_create_item, Created)>>))>>),
        JObj(<<KV(K_data, JObj(<<KV(K_create_item, JObj(<<>>))>>))>>),
        JObj(<<KV(K_data, JObj(<<>>))>>),
        JObj(<<KV(K_data, JNull)>>),
        JObj(<<>>),
        JObj(<<KV(K_errors, JArr(<<JObj(<<KV(K_message, JStr(s_BadBoard))>>)>>))>>),
        JObj(<<KV(K_error, JStr(s_BadBoard))>>),
        JObj(<<KV(K_errors, JNull),
               KV(K_data, JObj(<<KV(K_create_item, Created)>>))>>),
        JNull,
        JNum(5) } }
  \cup {<<>>, s_Html}

\* the errors a rejected fetch() carries
FetchErrors ==
  { [name |-> "TypeError", message |-> "fetch failed"],
    [name |-> "TypeError", message |-> ""] }

\* req.json() and JSON.parse(text), tabulated over the texts of the model
AllTexts == {r.body : r \in Requests} \cup UpstreamTexts
ParseTable == [s \in AllTexts |-> JSONparse(s)]
Parsed(s) == ParseTable[s]

(***************************************************************************)
(* The Worker                                                              *)
(***************************************************************************)
VARIABLES
  variant,     \* the revision that is deployed
  env,         \* env.MONDAY_API_KEY
  pc,          \* "idle", "awaitFetch" (suspended in await fetch(...)), "done"
  req,         \* the request being handled
  now,         \* the reading of new Date() in this request
  fetchCalls,  \* calls of fetch(MONDAY_API_URL, ...) made by this request
  sent,        \* the variables of the mutation handed to fetch
  upstream,    \* how the upstream exchange ended
  resp         \* what the handler returned or threw

vars == <<variant, env, pc, req, now, fetchCalls, sent, upstream, resp>>

NoRequest == [method |-> "", path |-> "", body |-> <<>>]
NoClock == [y |-> 0, m |-> 0, d |-> 0]
NothingSent == [boardId |-> <<>>, itemName |-> <<>>, columnValues |-> <<>>]
NoUpstream == [kind |-> "none"]
NoResponse == [kind |-> "none"]

\* json(obj, status) and respond(obj, status)
json(obj, status) == [kind |-> "response", status |-> status, obj |-> obj]
\* an exception that leaves handleMondayWrite uncaught
Thrown(name) == [kind |-> "thrown", error |-> name]

\* an error text that is String(e) without the message
ErrorText_nameOnly(e) == e.name

\* e?.message || String(e)
ErrorText(e) == IF e.message # "" THEN e.message ELSE e.name

\* mondayRes.ok
ResOk(status) == status \in 200..299

\* data = text ? JSON.parse(text) : null
DataOf(text) == IF text = <<>> THEN JNull ELSE Parsed(text).val

\* a key check that tests only for an unset variable
KeyMissing_unsetOnly(key) == key = Undefined

\* !env.MONDAY_API_KEY
KeyMissing(key) == ~Truthy(key)

\* an error check that leaves out data.errors
MondaySaysError_errorOnly(status, data) ==
  IF ~ResOk(status) THEN TRUE ELSE Truthy(Get(data, K_error))

\* !mondayRes.ok || data.error || data.errors, for a data that is not null
MondaySaysError(status, data) ==
  IF ~ResOk(status) THEN TRUE
  ELSE IF Truthy(Get(data, K_error)) THEN TRUE
  ELSE Truthy(Get(data, K_errors))

\* the same condition throws a TypeError: data is null and data.error is read
ReadsNullData(status, data) == ResOk(status) /\ Nullish(data)

IsWrite(r) == r.method = "POST" /\ r.path = "/monday/write"
IsPreflight(r) == variant = "P0a" /\ r.method = "OPTIONS"
IsHealth(r) == variant = "P0a" /\ r.method = "GET" /\ r.path = "/health"

\* the body the fields of the current request are read from
Body == Unwrapped(variant, Parsed(req.body).val)

Init ==
  /\ variant \in Variants
  /\ env \in ApiKeys
  /\ pc = "idle"
  /\ req = NoRequest
  /\ now = NoClock
  /\ fetchCalls = 0
  /\ sent = NothingSent
  /\ upstream = NoUpstream
  /\ resp = NoResponse

\* a request that ends before the upstream call
Answer(r, response) ==
  /\ pc = "idle"
  /\ pc' = "done"
  /\ req' = r
  /\ resp' = response
  /\ UNCHANGED <<variant, env, now, fetchCalls, sent, upstream>>

\* fetch: if (req.method === "OPTIONS") return new Response(null, {status: 204})
Preflight ==
  \E r \in Requests :
    /\ pc = "idle"
    /\ IsPreflight(r)
    /\ Answer(r, [kind |-> "response", status |-> 204, obj |-> [empty |-> TRUE]])

\* fetch: GET /health
Health ==
  \E r \in Requests :
    /\ pc = "idle"
    /\ ~IsPreflight(r) /\ IsHealth(r)
    /\ Answer(r, json([ok |-> TRUE, message |-> "Monday write worker live"], 200))

\* fetch: neither route matched
NotFound ==
  \E r \in Requests :
    /\ pc = "idle"
    /\ ~IsPreflight(r) /\ ~IsHealth(r) /\ ~IsWrite(r)
    /\ Answer(r, json([ok |-> FALSE, message |-> "Not found"], 404))

\* handleMondayWrite: if (!env.MONDAY_API_KEY)
ConfigError ==
  \E r \in Requests :
    /\ pc = "idle"
    /\ ~IsPreflight(r) /\ ~IsHealth(r) /\ IsWrite(r)
    /\ KeyMissing(env)
    /\ Answer(r, json([ok |-> FALSE,
                       message |-> "MONDAY_API_KEY env var is not set on the Worker."],
                      500))

\* handleMondayWrite: req.json() throws
InvalidBody ==
  \E r \in Requests :
    /\ pc = "idle"
    /\ ~IsPreflight(r) /\ ~IsHealth(r) /\ IsWrite(r)
    /\ ~KeyMissing(env)
    /\ ~Parsed(r.body).ok
    /\ Answer(r, json([ok |-> FALSE, message |-> "Invalid JSON body.",
                       error |-> ErrorText([name |-> "SyntaxError",
                                            message |-> SyntaxErrorMessage(r.body)])],
                      400))

\* handleMondayWrite: S(body.name) reads a property of null
BodyTypeError ==
  \E r \in Requests :
    /\ pc = "idle"
    /\ ~IsPreflight(r) /\ ~IsHealth(r) /\ IsWrite(r)
    /\ ~KeyMissing(env)
    /\ Parsed(r.body).ok
    /\ Nullish(Unwrapped(variant, Parsed(r.body).val))
    /\ Answer(r, Thrown("TypeError"))

\* handleMondayWrite up to `await fetch(MONDAY_API_URL, ...)`
CallMonday ==
  \E r \in Requests, clock \in Clock :
    /\ pc = "idle"
    /\ ~IsPreflight(r) /\ ~IsHealth(r) /\ IsWrite(r)
    /\ ~KeyMissing(env)
    /\ Parsed(r.body).ok
    /\ ~Nullish(Unwrapped(variant, Parsed(r.body).val))
    /\ pc' = "awaitFetch"
    /\ req' = r
    /\ now' = clock
    /\ sent' = variables(variant, Unwrapped(variant, Parsed(r.body).val), clock)
    /\ fetchCalls' = fetchCalls + 1
    /\ UNCHANGED <<variant, env, upstream, resp>>

\* the rest of handleMondayWrite, once the upstream exchange has ended
Finish(exchange, response) ==
  /\ pc = "awaitFetch"
  /\ pc' = "done"
  /\ upstream' = exchange
  /\ resp' = response
  /\ UNCHANGED <<variant, env, req, now, fetchCalls, sent>>

Exchange(status, text) == [kind |-> "response", status |-> status, text |-> text]

\* fetch rejects: catch (e) { return json({...}, 502) }
NetworkError ==
  \E e \in FetchErrors :
    /\ pc = "awaitFetch"
    /\ Finish([kind |-> "error", error |-> e],
           json([ok |-> FALSE, message |-> "Network error calling Monday.com",
                 error |-> ErrorText(e)], 502))

\* a classification that looks at the HTTP status before it parses the body
NonJsonResponse_statusFirst ==
  \E status \in UpstreamStatuses, text \in UpstreamTexts :
    /\ pc = "awaitFetch"
    /\ text # <<>> /\ ~Parsed(text).ok
    /\ Finish(Exchange(status, text),
              IF ResOk(status)
              THEN json([ok |-> FALSE, message |-> "Non-JSON response from Monday.com",
                         http_status |-> status, raw |-> text], 500)
              ELSE json([ok |-> FALSE, message |-> "Monday.com returned an error",
                         http_status |-> status, monday |-> JNull],
                        IF status # 0 THEN status ELSE 500))

\* JSON.parse(text) throws
NonJsonResponse ==
  \E status \in UpstreamStatuses, text \in UpstreamTexts :
    /\ pc = "awaitFetch"
    /\ text # <<>> /\ ~Parsed(text).ok
    /\ Finish(Exchange(status, text),
              json([ok |-> FALSE, message |-> "Non-JSON response from Monday.com",
                    http_status |-> status, raw |-> text], 500))

\* if (!mondayRes.ok || data.error || data.errors)
MondayError ==
  \E status \in UpstreamStatuses, text \in UpstreamTexts :
    LET data == DataOf(text) IN
    /\ pc = "awaitFetch"
    /\ text = <<>> \/ Parsed(text).ok
    /\ ~ReadsNullData(status, data)
    /\ MondaySaysError(status, data)
    /\ Finish(Exchange(status, text),
              json([ok |-> FALSE, message |-> "Monday.com returned an error",
                    http_status |-> status, monday |-> data],
                   IF status # 0 THEN status ELSE 500))

\* data.error reads a property of null
DataTypeError ==
  \E status \in UpstreamStatuses, text \in UpstreamTexts :
    /\ pc = "awaitFetch"
    /\ text = <<>> \/ Parsed(text).ok
    /\ ReadsNullData(status, DataOf(text))
    /\ Finish(Exchange(status, text), Thrown("TypeError"))

\* data?.data?.create_item
CreateItemOf(data) ==
  IF Nullish(data) THEN Undefined
  ELSE IF Nullish(Get(data, K_data)) THEN Undefined
  ELSE Get(Get(data, K_data), K_create_item)

\* the success return of handleMondayWrite
ItemCreated ==
  \E status \in UpstreamStatuses, text \in UpstreamTexts :
    LET data == DataOf(text)
        created == Or(CreateItemOf(data), JObj(<<>>))
    IN
    /\ pc = "awaitFetch"
    /\ text = <<>> \/ Parsed(text).ok
    /\ ~ReadsNullData(status, data)
    /\ ~MondaySaysError(status, data)
    /\ Finish(Exchange(status, text),
              json([ok |-> TRUE, message |-> "Monday item created successfully.",
                    boardId |-> BOARD_ID,
                    mondayItemId |-> Or(Get(created, K_id), JStr(<<>>)),
                    mondayItemName |-> Or(Get(created, K_name), JStr(<<>>)),
                    columnValuesSent |-> ColumnValuesSent(variant, Body, now),
                    mondayRaw |-> data], 200))

\* the Worker is invoked for the next request
NextRequest ==
  /\ pc = "done"
  /\ pc' = "idle"
  /\ req' = NoRequest
  /\ now' = NoClock
  /\ fetchCalls' = 0
  /\ sent' = NothingSent
  /\ upstream' = NoUpstream
  /\ resp' = NoResponse
  /\ UNCHANGED <<variant, env>>

Next ==
  \/ Preflight
  \/ Health
  \/ NotFound
  \/ ConfigError
  \/ InvalidBody
  \/ BodyTypeError
  \/ CallMonday
  \/ NetworkError
  \/ NonJsonResponse
  \/ MondayError
  \/ DataTypeError
  \/ ItemCreated
  \/ NextRequest

Spec == Init /\ [][Next]_vars

(***************************************************************************)
(* Properties                                                              *)
(***************************************************************************)
\* the request is a POST to the write route and the handler has run
WriteHandled == pc # "idle" /\ req.method = "POST" /\ req.path = "/monday/write"
KeyConfigured == env.t = "str" /\ env.s # <<>>
BodyParses == Parsed(req.body).ok
Responded(status) == resp.kind = "response" /\ resp.status = status
Exchanged == pc = "done" /\ upstream.kind = "response"
SuccessStatus(status) == status >= 200 /\ status <= 299

\* the column value map that was transmitted, read back from the variables
SentMap == JSONparse(sent.columnValues).val

\* C1: without a credential (unset or empty) every POST to the write route
\* ends with {ok:false} and status 500, and fetch is never invoked
C1_NoCredentialNoCall ==
  (env = Undefined \/ env = JStr(<<>>)) =>
    /\ fetchCalls = 0 /\ pc # "awaitFetch" /\ sent = NothingSent
    /\ WriteHandled => /\ pc = "done" /\ Responded(500)
                       /\ resp.obj.ok = FALSE

C1_Witness ==
  /\ env = JStr(<<>>) /\ WriteHandled /\ BodyParses
  /\ Responded(500) /\ fetchCalls = 0

\* C2: with a credential, a write request whose body is not valid JSON ends
\* with {ok:false, message, error: the parser's message} and status 400, and
\* fetch is never invoked
C2_InvalidBody400 ==
  (KeyConfigured /\ WriteHandled /\ ~JSONparse(req.body).ok) =>
    /\ pc = "done" /\ Responded(400)
    /\ resp.obj.ok = FALSE
    /\ resp.obj.message = "Invalid JSON body."
    /\ resp.obj.error = SyntaxErrorMessage(req.body)
    /\ fetchCalls = 0 /\ upstream = NoUpstream

C2_Witness ==
  /\ KeyConfigured /\ WriteHandled /\ req.body = s_Cut
  /\ Responded(400) /\ resp.obj.error = "Unexpected end of JSON input"

\* C3: every request that passes the credential check and the JSON parse
\* issues exactly one upstream POST, none issues more than one, and a
\* transport failure ends the request with {ok:false} and status 502
C3_ExactlyOneCall ==
  /\ fetchCalls <= 1
  /\ (KeyConfigured /\ WriteHandled /\ BodyParses) => fetchCalls = 1
  /\ upstream.kind = "error" =>
       /\ pc = "done" /\ Responded(502) /\ resp.obj.ok = FALSE /\ fetchCalls = 1

MalformedOutcome ==
  /\ Responded(500)
  /\ resp.obj.ok = FALSE
  /\ DOMAIN resp.obj = {"ok", "message", "http_status", "raw"}
  /\ resp.obj.raw = upstream.text
  /\ resp.obj.http_status = upstream.status

RejectedOutcome ==
  /\ resp.kind = "response"
  /\ resp.obj.ok = FALSE
  /\ DOMAIN resp.obj = {"ok", "message", "http_status", "monday"}

SuccessOutcome ==
  /\ Responded(200)
  /\ resp.obj.ok = TRUE

\* C4 as stated: whenever the upstream body is not valid JSON the outcome is
\* the malformed-upstream-response one, whatever the upstream status; the
\* status/errors check is reached only for a body that is valid JSON
C4_Original ==
  Exchanged =>
    /\ ~JSONparse(upstream.text).ok => MalformedOutcome
    /\ (RejectedOutcome \/ SuccessOutcome) => JSONparse(upstream.text).ok

\* C4 as amended: whenever the upstream body is not empty and not valid JSON
\* the outcome is the malformed-upstream-response one (ok:false, status 500,
\* the raw text and the upstream status), whatever the upstream status; the
\* status/errors check is reached only for a body that is valid JSON or empty
C4_NonEmptyNonJson ==
  Exchanged =>
    /\ (upstream.text # <<>> /\ ~Parsed(upstream.text).ok) => MalformedOutcome
    /\ (RejectedOutcome \/ SuccessOutcome) =>
         (upstream.text = <<>> \/ Parsed(upstream.text).ok)

C4_Witness ==
  /\ Exchanged /\ upstream.text = s_Html /\ upstream.status = 200
  /\ MalformedOutcome

\* the response of the upstream-rejected outcome for the exchange that ended
RejectedWithUpstreamStatus ==
  /\ RejectedOutcome
  /\ resp.status = (IF upstream.status # 0 THEN upstream.status ELSE 500)
  /\ resp.obj.monday = DataOf(upstream.text)

\* C5 as stated: once the body has been parsed, a non-success upstream status
\* or the presence of a top-level error or errors field gives {ok:false} with
\* the upstream's status (500 if none) and the parsed body embedded unchanged
C5_Original ==
  (Exchanged /\ (upstream.text = <<>> \/ Parsed(upstream.text).ok)) =>
    ((\/ ~SuccessStatus(upstream.status)
      \/ HasKey(DataOf(upstream.text), K_error)
      \/ HasKey(DataOf(upstream.text), K_errors))
     => RejectedWithUpstreamStatus)

\* C5 as amended: the same for a non-success upstream status or a top-level
\* error or errors field whose value is truthy (not null, false, 0 or "")
C5_TruthyErrorRejected ==
  (Exchanged /\ (upstream.text = <<>> \/ Parsed(upstream.text).ok)) =>
    ((\/ ~SuccessStatus(upstream.status)
      \/ Truthy(Get(DataOf(upstream.text), K_error))
      \/ Truthy(Get(DataOf(upstream.text), K_errors)))
     => RejectedWithUpstreamStatus)

C5_Witness ==
  /\ Exchanged /\ upstream.status = 200
  /\ Parsed(upstream.text).ok
  /\ Get(Parsed(upstream.text).val, K_errors)
       = JArr(<<JObj(<<KV(K_message, JStr(s_BadBoard))>>)>>)
  /\ Responded(200) /\ resp.obj.ok = FALSE
  /\ resp.obj.monday = Parsed(upstream.text).val

\* the id or name of the created record in the upstream body, "" when absent
CreatedField(data, k) ==
  IF /\ data.t = "obj" /\ Get(data, K_data).t = "obj"
     /\ Get(Get(data, K_data), K_create_item).t = "obj"
     /\ HasKey(Get(Get(data, K_data), K_create_item), k)
  THEN Get(Get(Get(data, K_data), K_create_item), k)
  ELSE JStr(<<>>)

\* C6: every completed upstream exchange ends in exactly one of the three
\* classified outcomes and never in an exception; the success outcome is
\* {ok:true}, status 200, with the created record's id and name or ""
C6_AlwaysClassified ==
  Exchanged =>
    /\ resp.kind = "response"
    /\ MalformedOutcome \/ RejectedOutcome \/ SuccessOutcome
    /\ SuccessOutcome =>
         /\ resp.obj.mondayItemId = CreatedField(DataOf(upstream.text), K_id)
         /\ resp.obj.mondayItemName = CreatedField(DataOf(upstream.text), K_name)

\* C7: with a credential, every body that parses as JSON is normalized and
\* the request proceeds to the upstream call: it is not rejected and it does
\* not throw
C7_EveryJsonProceeds ==
  (KeyConfigured /\ WriteHandled /\ JSONparse(req.body).ok) =>
    /\ upstream.kind = "none" => resp.kind # "thrown"
    /\ fetchCalls = 1
    /\ sent.itemName # <<>>
    /\ JSONparse(sent.columnValues).ok
    /\ ~Responded(400)

RecognizedDivisions ==
  {s_Arizona, s_Illinois, s_Alabama, s_Texas, s_Ohio, s_Tennessee, s_Indiana}

\* C8: in the transmitted map the division column is absent when the trimmed
\* division is empty, {label: division} when it is a recognized value and
\* {label: "Other"} for every other value
C8_DivisionColumn ==
  fetchCalls = 1 =>
    LET division == S(Get(Body, K_division)) IN
    IF division = <<>> THEN ~HasKey(SentMap, C_color_mktd81zp)
    ELSE IF division \in RecognizedDivisions
    THEN Get(SentMap, C_color_mktd81zp) = JObj(<<KV(K_label, JStr(division))>>)
    ELSE Get(SentMap, C_color_mktd81zp) = JObj(<<KV(K_label, JStr(Other))>>)

\* the digits the claim prescribes for a phone field
ClaimedDigits(raw) ==
  LET d == SelectSeq(raw, IsDigit) IN
  IF Len(d) = 11 /\ Head(d) = "1" THEN Tail(d) ELSE d

PhoneColumnAsClaimed(field, column) ==
  LET d == ClaimedDigits(S(Get(Body, field))) IN
  IF Len(d) < 7 THEN ~HasKey(SentMap, column)
  ELSE /\ Get(Get(SentMap, column), K_phone) = JStr(d)
       /\ Truthy(Get(Get(SentMap, column), K_countryShortName))

\* C9: phone and callerId are each reduced to their digits, an 11-digit
\* number loses its leading 1, fewer than 7 digits give no column, and the
\* column otherwise carries exactly the digits with a region hint
C9_PhoneColumns ==
  fetchCalls = 1 =>
    /\ PhoneColumnAsClaimed(K_phone, C_phone_mktdphra)
    /\ PhoneColumnAsClaimed(K_callerId, C_phone_mkv0p9q3)
    /\ S(Get(Body, K_phone)) = s_Phone11 =>
         Get(Get(SentMap, C_phone_mktdphra), K_phone)
           = JStr(<<"7", "1", "4", "5", "5", "5", "1", "2", "1", "2">>)

\* C10: a dateTime of the form YYYY-MM-DD or YYYY-MM-DD HH:MM:SS is sent
\* unchanged, another parseable value as its UTC date, and an empty or
\* unparseable value as the current UTC date
C10_DateColumn ==
  /\ (KeyConfigured /\ WriteHandled /\ BodyParses /\ ~Nullish(Body)) => fetchCalls = 1
  /\ fetchCalls = 1 =>
    LET dateTime == S(Get(Body, K_dateTime)) IN
    /\ Get(SentMap, C_date4) =
         JStr(IF MatchesYMD(dateTime) \/ MatchesYMDHMS(dateTime) THEN dateTime
              ELSE IF dateTime # <<>> /\ NewDate(dateTime).valid
              THEN FormatYMD(NewDate(dateTime).date)
              ELSE FormatYMD(now))
    /\ dateTime = s_IsoWest => Get(SentMap, C_date4) = JStr(s_Date)

(***************************************************************************)
(* The revisions that do what C8, C9 and C10 state                         *)
(***************************************************************************)
\* the first handler of part_000 is the one revision with validDivisions
DivisionColumn_P0a == variant = "P0a" => C8_DivisionColumn

\* the revisions with normalizePhone
PhoneColumns_P0a_P1 == variant \in {"P0a", "P1"} => C9_PhoneColumns

\* the revisions whose normalizeDateString has the fast path
DateColumn_P0b_P1 == variant \in {"P0b", "P1"} => C10_DateColumn

(***************************************************************************)
(* The item title                                                          *)
(***************************************************************************)
\* the title the claim prescribes for a trimmed name and a trimmed issue
ClaimedTitle(name, issue) ==
  IF name # <<>> /\ issue # <<>> THEN name \o <<" ", EnDash, " ">> \o issue
  ELSE IF name # <<>> THEN name
  ELSE DefaultItemName

\* C11: the itemName sent upstream is "{name} - {issue}" (with an en dash)
\* when the trimmed name and the trimmed issue are both non-empty, the name
\* alone when only the name is non-empty, and the fallback title when the
\* name is empty, with or without an issue
C11_ItemTitle ==
  fetchCalls = 1 =>
    sent.itemName = ClaimedTitle(S(Get(Body, K_name)), S(Get(Body, K_issue)))

\* the revisions whose itemName joins the name and the issue
ItemTitle_W_P0b_P1 == variant # "P0a" => C11_ItemTitle

(***************************************************************************)
(* The columns that are always sent                                        *)
(***************************************************************************)
\* the fixed value of the department column: src/_worker.js sends the plain
\* string, the other revisions the label object
DepartmentValue == IF variant = "W" THEN JStr(department) ELSE Label(department)

\* C12: in every transmitted map, whatever the input, the name column and
\* the date column are present with a non-empty value (the name defaults to
\* "Unknown caller", the date to the current date), and the department label
\* and the department contact address are present with their fixed values
C12_AlwaysPresentColumns ==
  fetchCalls = 1 =>
    LET name == S(Get(Body, K_name))
        dateTime == S(Get(Body, K_dateTime))
        parsed == JSONparse(sent.columnValues)
        nameColumn == Get(parsed.val, K_name)
        dateColumn == Get(parsed.val, C_date4)
    IN
    /\ parsed.ok
    /\ nameColumn.t = "str" /\ nameColumn.s # <<>>
    /\ nameColumn = JStr(IF name # <<>> THEN name ELSE UnknownCaller)
    /\ dateColumn.t = "str" /\ dateColumn.s # <<>>
    /\ dateTime = <<>> => dateColumn = JStr(FormatYMD(now))
    /\ Get(parsed.val, C_color_mktsk31h) = DepartmentValue
    /\ Get(parsed.val, C_text_mkv07gad) = JStr(departmentEmail)

\* a body without name and without dateTime was sent with both defaults
C12_Witness ==
  /\ fetchCalls = 1
  /\ S(Get(Body, K_name)) = <<>> /\ S(Get(Body, K_dateTime)) = <<>>
  /\ Get(SentMap, K_name) = JStr(UnknownCaller)
  /\ Get(SentMap, C_date4) = JStr(FormatYMD(now))
  /\ Get(SentMap, C_text_mkv07gad) = JStr(departmentEmail)

(***************************************************************************)
(* Envelope unwrapping                                                     *)
(***************************************************************************)
\* the top-level value req.json() returned
TopLevel == Parsed(req.body).val

IsNested(v) == v.t \in {"obj", "arr"}

\* the object the claim's rules select, with `first` as the key of rule (1):
\* one rule at most, in priority order, one level deep
EnvelopeSource(first, top) ==
  IF ~IsNested(top) THEN top
  ELSE IF IsNested(Get(top, first)) THEN Get(top, first)
  ELSE IF IsNested(Get(top, K_data)) THEN Get(top, K_data)
  ELSE IF Get(top, K_body).t = "str"
  THEN LET inner == JSONparse(Get(top, K_body).s) IN
       IF inner.ok THEN inner.val ELSE top
  ELSE IF IsNested(Get(top, K_body)) THEN Get(top, K_body)
  ELSE top

\* C13 as stated: the fields are read from the object selected by the rules
\* (1) "payload" or else "data", (2) a string "body" parsed as JSON, the
\* top-level object on a parse failure, (3) an object "body", and otherwise
\* from the top-level object
C13_Original ==
  fetchCalls = 1 =>
    sent = variables(variant, EnvelopeSource(K_payload, TopLevel), now)

\* C13, amended: part_001 and the first handler of part_000 apply the rules
\* with "json" as the first key of rule (1), so an object under "payload" is
\* not descended into; src/_worker.js and the second handler of part_000 read
\* the fields from the top-level object
C13_UnwrapJsonKey ==
  fetchCalls = 1 =>
    sent = variables(variant,
                     IF variant \in {"P0a", "P1"}
                     THEN EnvelopeSource(K_json, TopLevel) ELSE TopLevel,
                     now)

\* an envelope with both "data" and "json" was sent with the fields of the
\* object under "json"
C13_Witness ==
  /\ variant = "P1" /\ fetchCalls = 1
  /\ TopLevel = JObj(<<KV(K_data, Inner), KV(K_json, Inner2)>>)
  /\ sent.itemName = s_A

(***************************************************************************)
(* Elision of empty values                                                 *)
(***************************************************************************)
\* the values the elision pass removes
IsEmptyValue(v) == v = Undefined \/ v = JNull \/ v = JStr(<<>>)

\* C14: the map serialized into the upstream call is the elision pass applied
\* to the assembled candidate map: no key of it has the value null, undefined
\* or the empty string, and the pass applied to it again gives the same map
C14_ElidedMap ==
  fetchCalls = 1 =>
    LET parsed == JSONparse(sent.columnValues)
        entries == parsed.val.m
    IN
    /\ parsed.ok /\ parsed.val.t = "obj"
    /\ parsed.val = JObj(cleanedColumnValues(columnValues(variant, Body, now)))
    /\ \A i \in 1..Len(entries) : ~IsEmptyValue(entries[i].v)
    /\ cleanedColumnValues(entries) = entries

\* the revisions that have the cleanedColumnValues loop
ElidedMap_P0a_P0b_P1 == variant # "W" => C14_ElidedMap

(***************************************************************************)
(* The ok flag of the response                                             *)
(***************************************************************************)
\* the request has ended with a response whose JSON body carries `ok`
SaysOk(b) ==
  /\ pc = "done" /\ resp.kind = "response"
  /\ "ok" \in DOMAIN resp.obj /\ resp.obj.ok = b

\* the request made one upstream call and the call completed with a response
OneCallCompleted ==
  /\ KeyConfigured /\ WriteHandled /\ BodyParses
  /\ fetchCalls = 1 /\ upstream.kind = "response"

\* the success path as the claim describes it: a success status and a JSON
\* body without a top-level error or errors field
SuccessPathAsClaimed ==
  /\ OneCallCompleted
  /\ SuccessStatus(upstream.status)
  /\ Parsed(upstream.text).ok
  /\ ~HasKey(Parsed(upstream.text).val, K_error)
  /\ ~HasKey(Parsed(upstream.text).val, K_errors)

\* C15: ok:true is returned only at the end of a request with a configured
\* credential, a parsed body and exactly one completed upstream call that
\* returned a success status and a JSON body without a top-level error or
\* errors field; every other path ends with a response that has ok:false
C15_OkOnlyOnSuccess ==
  /\ SaysOk(TRUE) => SuccessPathAsClaimed
  /\ (pc = "done" /\ ~IsPreflight(req) /\ ~SuccessPathAsClaimed) => SaysOk(FALSE)

\* the success path of the code: the error and errors fields are tested for
\* truthiness
SuccessPath ==
  /\ OneCallCompleted
  /\ SuccessStatus(upstream.status)
  /\ Parsed(upstream.text).ok
  /\ ~Truthy(Get(Parsed(upstream.text).val, K_error))
  /\ ~Truthy(Get(Parsed(upstream.text).val, K_errors))

\* what the revisions do: ok:true comes from the health route of the first
\* handler of part_000 or from the success path, and every other response
\* with a body has ok:false
OkFlag_AsCoded ==
  /\ SaysOk(TRUE) => IsHealth(req) \/ SuccessPath
  /\ (pc = "done" /\ resp.kind = "response" /\ ~IsPreflight(req)
        /\ ~IsHealth(req) /\ ~SuccessPath) => SaysOk(FALSE)

\* ok:true is never returned without a completed upstream call, the health
\* route apart
OkTrue_NeedsUpstream ==
  (SaysOk(TRUE) /\ ~IsHealth(req)) =>
    /\ OneCallCompleted /\ SuccessStatus(upstream.status)
    /\ Parsed(upstream.text).ok

=============================================================================
